---------------------------- MODULE Spec2Model ----------------------------
(***************************************************************************)
(* Model of the two build scripts of the personal-blog repository:        *)
(*   src/book-reviews/update_book_registry.py  (books.txt -> registry)    *)
(*   src/blog/md_to_html.py                    (markdown -> article page) *)
(*                                                                         *)
(* Text is a sequence of lexemes.  A lexeme is one character of free text *)
(* ("a", " ", "<", "&", ...) or one whole piece of markup written by the  *)
(* scripts or expected by their patterns ("</ul>", "<li>", ...).          *)
(***************************************************************************)
EXTENDS Integers, Sequences, FiniteSets

VARIABLES
    \* ---- the single-line parser called on its own
    p_pc, p_line, p_ret, p_printed,
    \* ---- the fragment renderer called on its own
    g_pc, g_books, g_summary, g_detail,
    \* ---- the registry updater: the two files, then the process
    books_txt,      \* content of BOOKS_FILE (its lines), or Missing
    registry_html,  \* content of REGISTRY_HTML, or Missing
    pc, lines, line_num, books, printed, html_content, new_html, ret,
    exit_code,      \* exit status of the process, NoExit while it runs
    history,        \* exit statuses of the invocations that ended before
    \* ---- the article converter: its inputs, then the process
    c_argv,           \* sys.argv[1:]
    c_exists,         \* the path as given exists
    c_drafts_exists,  \* the path exists under drafts/
    c_date,           \* the `date` of the front matter
    c_pc, c_formatted, c_written, c_exit

parseVars  == <<p_pc, p_line, p_ret, p_printed>>
renderVars == <<g_pc, g_books, g_summary, g_detail>>
fileVars   == <<books_txt, registry_html>>
procVars   == <<pc, lines, line_num, books, printed, html_content, new_html, ret,
                exit_code, history>>
updaterVars == <<fileVars, procVars>>
converterVars == <<c_argv, c_exists, c_drafts_exists, c_date, c_pc, c_formatted,
                   c_written, c_exit>>
vars == <<parseVars, renderVars, updaterVars, converterVars>>

(***************************************************************************)
(* Bounds of the model                                                     *)
(***************************************************************************)
MaxSegs == 6
MaxBooks == 2
MaxLines == 3
MaxRuns == 2

(***************************************************************************)
(* Python's None                                                           *)
(***************************************************************************)
None == [none |-> TRUE]

(***************************************************************************)
(* str helpers: strip, split, join, startswith                             *)
(***************************************************************************)
IsSpace(c) == c \in {" ", "\n", "\t"}

RECURSIVE LStrip(_)
LStrip(s) ==
    IF s = <<>> THEN <<>>
    ELSE IF IsSpace(Head(s)) THEN LStrip(Tail(s)) ELSE s

RECURSIVE RStrip(_)
RStrip(s) ==
    IF s = <<>> THEN <<>>
    ELSE IF IsSpace(s[Len(s)]) THEN RStrip(SubSeq(s, 1, Len(s) - 1)) ELSE s

\* str.strip()
Strip(s) == RStrip(LStrip(s))

\* the delimiter of line 30 and line 41
DELIM == <<" ", "-", " ">>

\* s has t at position i (1-based)
HasAt(s, i, t) ==
    /\ i >= 1
    /\ i + Len(t) - 1 <= Len(s)
    /\ SubSeq(s, i, i + Len(t) - 1) = t

\* str.startswith
StartsWith(s, t) == HasAt(s, 1, t)

\* str.find from position i: the least position >= i where t occurs, 0 if none
RECURSIVE Find(_, _, _)
Find(s, t, i) ==
    IF i + Len(t) - 1 > Len(s) THEN 0
    ELSE IF HasAt(s, i, t) THEN i
    ELSE Find(s, t, i + 1)

\* str.split(sep): left to right, occurrences do not overlap
RECURSIVE Split(_, _)
Split(s, sep) ==
    LET i == Find(s, sep, 1)
    IN  IF i = 0 THEN <<s>>
        ELSE <<SubSeq(s, 1, i - 1)>> \o Split(SubSeq(s, i + Len(sep), Len(s)), sep)

\* sep.join(parts)
RECURSIVE Join(_, _)
Join(parts, sep) ==
    IF parts = <<>> THEN <<>>
    ELSE IF Len(parts) = 1 THEN parts[1]
    ELSE parts[1] \o sep \o Join(Tail(parts), sep)

\* [f(p) for p in parts]
StripAll(parts) == [i \in 1..Len(parts) |-> Strip(parts[i])]

(***************************************************************************)
(* parse_book_line (lines 18-49).  The value of a call is what it returns  *)
(* (ret) together with what it prints (printed).  A printed diagnostic is  *)
(* a record of the message and of every value interpolated into it.        *)
(***************************************************************************)
\* lines 33-34: the two prints for a line with fewer than 5 parts
InvalidFormatPrints(line) ==
    << [msg |-> "Warning: Invalid format in line: {line}", line |-> line],
       [msg |-> "Expected format: rating - date - title - author - description"] >>

\* line 41 as written by a fixed-arity parser: extra parts dropped
DescriptionTruncated(parts) == parts[5]

\* line 41: ' - '.join(parts[4:])
Description(parts) == Join(SubSeq(parts, 5, Len(parts)), DELIM)

\* line 26 as written by a parser that also knows comments
IsSkippedWithHash(line) == line = <<>> \/ StartsWith(line, <<"#">>)

\* line 26: if not line
IsSkipped(line) == line = <<>>

parse_book_line(raw) ==
    LET line  == Strip(raw)
        parts == StripAll(Split(line, DELIM))
    IN  IF IsSkipped(line) THEN [ret |-> None, printed |-> <<>>]
        ELSE IF Len(parts) < 5
             THEN [ret |-> None, printed |-> InvalidFormatPrints(line)]
        ELSE [ret |-> [rating      |-> parts[1],
                       date_read   |-> parts[2],
                       title       |-> parts[3],
                       author      |-> parts[4],
                       description |-> Description(parts)],
              printed |-> <<>>]

(***************************************************************************)
(* The body of the loop of update_book_registry (lines 116-120) for one   *)
(* line: the books it appends and what is printed meanwhile.               *)
(***************************************************************************)
LoopBody(n, raw) ==
    IF Strip(raw) # <<>> /\ ~StartsWith(Strip(raw), <<"#">>)
    THEN LET r == parse_book_line(raw)
         IN  [appended |-> IF r.ret # None THEN <<r.ret>> ELSE <<>>,
              printed  |-> r.printed]
    ELSE [appended |-> <<>>, printed |-> <<>>]

(***************************************************************************)
(* Input lines for the parser called on its own: up to MaxSegs raw        *)
(* segments joined with the delimiter.  The segments carry the cases:     *)
(* plain text, trailing blank, leading blank and comment mark, blank.     *)
(***************************************************************************)
Segs == { <<"a">>, <<"b", " ">>, <<" ", "#">>, <<" ">> }

Lines == { Join(ss, DELIM) : ss \in UNION { [1..n -> Segs] : n \in 1..MaxSegs } }

\* a direct call of parse_book_line(p_line)
CallParse ==
    /\ p_pc = "call"
    /\ LET r == parse_book_line(p_line)
       IN  /\ p_ret' = r.ret
           /\ p_printed' = r.printed
    /\ p_pc' = "parsed"
    /\ UNCHANGED <<p_line, renderVars, updaterVars, converterVars>>

\* one pass of the loop body of update_book_registry over p_line
CallLoopBody ==
    /\ p_pc = "call"
    /\ LET r == LoopBody(1, p_line)
       IN  /\ p_ret' = r.appended
           /\ p_printed' = r.printed
    /\ p_pc' = "looped"
    /\ UNCHANGED <<p_line, renderVars, updaterVars, converterVars>>

(***************************************************************************)
(* html.escape(s) as called on lines 71-74 and 85-87 (quote=True): five    *)
(* str.replace calls in this order, the ampersand first.                   *)
(***************************************************************************)
\* str.replace(c, rep) for a one-character c
RECURSIVE Replace(_, _, _)
Replace(s, c, rep) ==
    IF s = <<>> THEN <<>>
    ELSE (IF Head(s) = c THEN rep ELSE <<Head(s)>>) \o Replace(Tail(s), c, rep)

AMP  == <<"&", "a", "m", "p", ";">>
LT   == <<"&", "l", "t", ";">>
GT   == <<"&", "g", "t", ";">>
QUOT == <<"&", "q", "u", "o", "t", ";">>
APOS == <<"&", "#", "x", "2", "7", ";">>

\* an escape that replaces the ampersand last, escaping its own entities again
html_escape_amp_last(s) ==
    Replace(Replace(Replace(Replace(Replace(s, "<", LT), ">", GT), "\"", QUOT), "'", APOS), "&", AMP)

html_escape(s) ==
    Replace(Replace(Replace(Replace(Replace(s, "&", AMP), "<", LT), ">", GT), "\"", QUOT), "'", APOS)

\* format_date of update_book_registry.py (lines 52-56): returns its argument
format_date_str(date_str) == date_str

(***************************************************************************)
(* generate_book_html (lines 59-95)                                        *)
(***************************************************************************)
Spaces(n) == [i \in 1..n |-> " "]
EMDASH == "(em dash)"

\* line 77: one summary item
SummaryItem(book) ==
    Spaces(16) \o <<"<li>">> \o html_escape(book.rating)
      \o <<" ", EMDASH, " ">> \o html_escape(format_date_str(book.date_read))
      \o <<" ", EMDASH, " ", "<strong>">> \o html_escape(book.title)
      \o <<"</strong>", " ", "b", "y", " ">> \o html_escape(book.author)
      \o <<"</li>">>

\* line 90: one detail item
DetailItem(book) ==
    Spaces(16) \o <<"<li>", "\n">>
      \o Spaces(20) \o <<"<span class=\"book-title-author\">", "<strong>">>
      \o html_escape(book.title) \o <<"</strong>", " ", "b", "y", " ">>
      \o html_escape(book.author) \o <<"</span>", "\n">>
      \o Spaces(20) \o <<"<div class=\"book-description\">">>
      \o html_escape(book.description) \o <<"</div>", "\n">>
      \o Spaces(16) \o <<"</li>">>

generate_book_html(bks) ==
    IF bks = <<>> THEN [summary_html |-> <<>>, detail_html |-> <<>>]
    ELSE [summary_html |-> Join([i \in 1..Len(bks) |-> SummaryItem(bks[i])], <<"\n">>),
          detail_html  |-> Join([i \in 1..Len(bks) |-> DetailItem(bks[i])], <<"\n">>)]

(***************************************************************************)
(* Records for the renderer called on its own: every field is plain text  *)
(* or text holding each of the five characters html.escape rewrites and   *)
(* something that already looks like an entity.                            *)
(***************************************************************************)
FieldVals == { <<"a">>, <<"<", "&", "l", "t", ";", "\"", ">", "'">> }

Records == [rating : FieldVals, date_read : FieldVals, title : FieldVals,
            author : FieldVals, description : FieldVals]

\* a call of generate_book_html(g_books)
CallGenerate ==
    /\ g_pc = "call"
    /\ LET r == generate_book_html(g_books)
       IN  /\ g_summary' = r.summary_html
           /\ g_detail' = r.detail_html
    /\ g_pc' = "done"
    /\ UNCHANGED <<g_books, parseVars, updaterVars, converterVars>>

(***************************************************************************)
(* The markup the two patterns of update_book_registry look for (lines    *)
(* 145 and 166) and the replacement writes (lines 147-159, 167-179).       *)
(***************************************************************************)
LIST_OPEN == "<div class=\"books-list\">"
SEP_OPEN  == "<div class=\"books-separator\">"
DET_OPEN  == "<div class=\"books-details\">"
UL_OPEN   == "<ul>"
UL_CLOSE  == "</ul>"
DIV_CLOSE == "</div>"
MAIN_CLOSE == "</main>"

\* the least element of a non-empty set of positions
Least(S) == CHOOSE x \in S : \A y \in S : x <= y

\* \s* from position i: the first position at or after i that holds no
\* whitespace (Len(s) + 1 when only whitespace is left)
SkipWs(s, i) ==
    Least({ j \in i..(Len(s) + 1) : j = Len(s) + 1 \/ ~IsSpace(s[j]) })

\* \s* followed by the lexeme x, from position i: the position after x, or 0
WsThen(s, i, x) ==
    LET j == SkipWs(s, i)
    IN  IF j <= Len(s) /\ s[j] = x THEN j + 1 ELSE 0

\* (\s*</main>) from position p: the position after it, or 0
TailEnd(s, p) == WsThen(s, p, MAIN_CLOSE)

\* .*?</ul>\s*</div> from position p: every position the piece can end
\* before, the lazy .*? trying the least first
ListEnds(s, p) ==
    { WsThen(s, k + 1, DIV_CLOSE) :
        k \in { k \in p..Len(s) : s[k] = UL_CLOSE /\ WsThen(s, k + 1, DIV_CLOSE) # 0 } }

\* \s*<div class="books-separator">.*?</div> from position p
SepEnds(s, p) ==
    LET j == WsThen(s, p, SEP_OPEN)
    IN  IF j = 0 THEN {} ELSE { k + 1 : k \in { k \in j..Len(s) : s[k] = DIV_CLOSE } }

\* \s*<div class="books-details">.*?</ul>\s*</div> from position p
DetEnds(s, p) ==
    LET j == WsThen(s, p, DET_OPEN)
    IN  IF j = 0 THEN {} ELSE ListEnds(s, j)

NoMatch == [end |-> 0]

\* the first of the ends ds that leads to a match, or else p itself when the
\* tail matches right at p; 0 when neither does
FirstOr(s, ds, p) ==
    IF ds # {} THEN Least(ds) ELSE IF TailEnd(s, p) # 0 THEN p ELSE 0

\* (?:details)?(\s*</main>) from position p: the optional group is greedy,
\* so the details are tried first, each of their ends in turn, and only
\* then the pattern without them.  The value is where group 2 starts, or 0
\* when there is no match.
AfterDetails(s, p) ==
    FirstOr(s, { d \in DetEnds(s, p) : TailEnd(s, d) # 0 }, p)

\* the tail of the pattern after the separator that ends first and leads to
\* a match, or without the separator
AfterFirst(s, ss, p) == AfterDetails(s, IF ss # {} THEN Least(ss) ELSE p)

\* (?:separator)?(?:details)?(\s*</main>) from position p: where group 2
\* starts, or 0
AfterSeparator(s, p) ==
    AfterFirst(s, { x \in SepEnds(s, p) : AfterDetails(s, x) # 0 }, p)

\* the match that starts at i, whose group 1 ends before e and whose group 2
\* starts at g2
MatchOf(s, i, e, g2) ==
    [end |-> TailEnd(s, g2),
     groups |-> << SubSeq(s, i, e - 1), SubSeq(s, g2, TailEnd(s, g2) - 1) >>]

\* the match at i for the ends es of group 1 that lead to a match: the lazy
\* .*? takes the least
PatternFrom(s, i, es) ==
    IF es = {} THEN NoMatch
    ELSE MatchOf(s, i, Least(es), AfterSeparator(s, Least(es)))

\* the pattern of line 145 at position i: the match (its groups as text) or
\* NoMatch
PatternAt(s, i) ==
    IF s[i] # LIST_OPEN THEN NoMatch
    ELSE PatternFrom(s, i, { e \in ListEnds(s, i + 1) : AfterSeparator(s, e) # 0 })

\* the match of pattern_simple that starts at i, with group 2 from u, group
\* 3 from k, group 4 from d and the end at e
MatchSimpleOf(s, i, u, k, d, e) ==
    [end |-> e,
     groups |-> << SubSeq(s, i, u - 1), SubSeq(s, u, k - 1),
                   SubSeq(s, k, d - 1), SubSeq(s, d, e - 1) >>]

\* the match of pattern_simple at i whose list opens before u, for the
\* closing tags ks that lead to a match: the lazy .*? takes the least
PatternSimpleFrom(s, i, u, ks) ==
    IF ks = {} THEN NoMatch
    ELSE MatchSimpleOf(s, i, u, Least(ks), WsThen(s, Least(ks) + 1, DIV_CLOSE),
                       TailEnd(s, WsThen(s, Least(ks) + 1, DIV_CLOSE)))

\* the closing tags from u on after which </div> and then </main> follow
SimpleCloses(s, u) ==
    { k \in u..Len(s) :
        /\ s[k] = UL_CLOSE
        /\ WsThen(s, k + 1, DIV_CLOSE) # 0
        /\ TailEnd(s, WsThen(s, k + 1, DIV_CLOSE)) # 0 }

\* pattern_simple of line 166 at position i
PatternSimpleAt(s, i) ==
    IF s[i] # LIST_OPEN \/ WsThen(s, i + 1, UL_OPEN) = 0 THEN NoMatch
    ELSE PatternSimpleFrom(s, i, WsThen(s, i + 1, UL_OPEN),
                           SimpleCloses(s, WsThen(s, i + 1, UL_OPEN)))

(***************************************************************************)
(* The replacement template of re.sub.  A backslash in the template opens *)
(* an escape: a digit names a group, \\ is a backslash, \n and \t are the  *)
(* control characters, any other ASCII letter is an error ("bad escape"),  *)
(* and before anything else the backslash stands for itself.  The texts   *)
(* of this model hold no "0" and no "g" after a backslash, and at most    *)
(* two digits.                                                             *)
(***************************************************************************)
Digits == {"1", "2", "3", "4", "5", "6", "7", "8", "9"}
DigitValue(c) ==
    CASE c = "1" -> 1 [] c = "2" -> 2 [] c = "3" -> 3 [] c = "4" -> 4 [] c = "5" -> 5
      [] c = "6" -> 6 [] c = "7" -> 7 [] c = "8" -> 8 [] c = "9" -> 9
AsciiLetters == {"a", "b", "c", "d", "k", "l", "m", "o", "p", "q", "t", "u", "x", "y"}
BACKSLASH == "\\"

\* the group a backslash at position i names: 0 when it names none
GroupRefAt(t, i) ==
    IF i + 1 > Len(t) \/ t[i + 1] \notin Digits THEN 0
    ELSE IF i + 2 <= Len(t) /\ t[i + 2] \in Digits
         THEN 10 * DigitValue(t[i + 1]) + DigitValue(t[i + 2])
         ELSE DigitValue(t[i + 1])

\* the lexemes the escape at position i takes up
EscapeLen(t, i) ==
    IF i + 1 > Len(t) THEN 1
    ELSE IF GroupRefAt(t, i) >= 10 THEN 3
    ELSE IF GroupRefAt(t, i) >= 1 \/ t[i + 1] \in {BACKSLASH, "n", "t"} THEN 2
    ELSE 1

\* the number of backslashes that stand right before position i
RECURSIVE BackslashesBefore(_, _)
BackslashesBefore(t, i) ==
    IF i > 1 /\ t[i - 1] = BACKSLASH THEN 1 + BackslashesBefore(t, i - 1) ELSE 0

\* the template does not compile for a pattern of n groups: re.error
TemplateError(t, n) ==
    \E i \in 1..Len(t) :
        /\ t[i] = BACKSLASH
        \* the backslash opens an escape: it is not the second half of \\
        /\ BackslashesBefore(t, i) % 2 = 0
        /\ \/ i = Len(t)
           \/ GroupRefAt(t, i) > n
           \/ /\ GroupRefAt(t, i) = 0
              /\ t[i + 1] \in AsciiLetters \ {"n", "t"}

\* the template with the groups of a match filled in, from position i: the
\* text up to the next backslash, what its escape stands for, and the rest
RECURSIVE Expand(_, _, _)
Expand(t, groups, i) ==
    LET bs == { k \in i..Len(t) : t[k] = BACKSLASH }
    IN  IF bs = {} THEN SubSeq(t, i, Len(t))
        ELSE LET k == Least(bs)
                 g == GroupRefAt(t, k)
                 one == IF g >= 1 THEN groups[g]
                        ELSE IF k + 1 > Len(t) THEN <<BACKSLASH>>
                        ELSE IF t[k + 1] = BACKSLASH THEN <<BACKSLASH>>
                        ELSE IF t[k + 1] = "n" THEN <<"\n">>
                        ELSE IF t[k + 1] = "t" THEN <<"\t">>
                        ELSE <<BACKSLASH>>
             IN  SubSeq(t, i, k - 1) \o one \o Expand(t, groups, k + EscapeLen(t, k))

\* the pattern named by `pattern` at position i of s
MatchAt(pattern, s, i) ==
    IF pattern = "pattern" THEN PatternAt(s, i) ELSE PatternSimpleAt(s, i)

\* re.sub(pattern, template, s) from position pos on, for a template that
\* compiles: every match, left to right and not overlapping, is replaced.
\* SubMatch replaces the match m found at i and goes on after it; SubAt
\* picks the leftmost of the positions where the pattern matches.
RECURSIVE SubFrom(_, _, _, _)
SubMatch(pattern, t, s, pos, i, m) ==
    SubSeq(s, pos, i - 1) \o Expand(t, m.groups, 1) \o SubFrom(pattern, t, s, m.end)

SubAt(pattern, t, s, pos, starts) ==
    IF starts = {} THEN SubSeq(s, pos, Len(s))
    ELSE SubMatch(pattern, t, s, pos, Least(starts), MatchAt(pattern, s, Least(starts)))

SubFrom(pattern, t, s, pos) ==
    SubAt(pattern, t, s, pos, { i \in pos..Len(s) : MatchAt(pattern, s, i).end # 0 })

\* lines 147-159 and 167-179: the replacement up to its group reference
Replacement(summary_html, detail_html) ==
    <<LIST_OPEN, "\n">> \o Spaces(12) \o <<UL_OPEN, "\n">>
      \o summary_html \o <<"\n">>
      \o Spaces(12) \o <<UL_CLOSE, "\n">> \o Spaces(8) \o <<DIV_CLOSE, "\n", "\n">>
      \o Spaces(8) \o <<SEP_OPEN, DIV_CLOSE, "\n", "\n">>
      \o Spaces(8) \o <<DET_OPEN, "\n">> \o Spaces(12) \o <<UL_OPEN, "\n">>
      \o detail_html \o <<"\n">>
      \o Spaces(12) \o <<UL_CLOSE, "\n">> \o Spaces(8) \o <<DIV_CLOSE>>

\* what re.sub gives: a text, or the re.error it raises
Raised == [raised |-> TRUE, text |-> <<>>]
Text(s) == [raised |-> FALSE, text |-> s]

\* lines 162-181 for the replacement r without its group reference: the
\* fallback runs when the first re.sub gave back the text it was given
SpliceWith(html, r) ==
    IF TemplateError(r \o <<BACKSLASH, "2">>, 2) THEN Raised
    ELSE IF SubFrom("pattern", r \o <<BACKSLASH, "2">>, html, 1) # html
         THEN Text(SubFrom("pattern", r \o <<BACKSLASH, "2">>, html, 1))
    ELSE IF TemplateError(r \o <<BACKSLASH, "4">>, 4) THEN Raised
    ELSE Text(SubFrom("pattern_simple", r \o <<BACKSLASH, "4">>, html, 1))

\* the replacement for the two fragments g of generate_book_html
ReplacementOf(g) == Replacement(g.summary_html, g.detail_html)

\* lines 141-181: the new text of the document, or Raised when re.sub
\* raises (the template is compiled before the search)
Splice(html, bks) == SpliceWith(html, ReplacementOf(generate_book_html(bks)))

(***************************************************************************)
(* The files the registry updater runs on.                                 *)
(***************************************************************************)
\* a file: whether it exists, and its content
Missing == [exists |-> FALSE, content |-> <<>>]
File(c) == [exists |-> TRUE, content |-> c]
NoExit == -1
\* update_book_registry has not returned (yet, or because it raised)
NotReturned == "(not returned)"

\* a line of books.txt as readlines() gives it
FileLine(segs) == Join(segs, DELIM) \o <<"\n">>

\* well-formed, with characters html.escape rewrites and with the delimiter
\* inside the description
LineSpecial == FileLine(<< <<"4">>, <<"d">>, <<"<">>, <<"&">>, <<"x">>, <<"y">> >>)
\* 4 fields only
LineMalformed == FileLine(<< <<"5">>, <<"d">>, <<"t">>, <<"a">> >>)
LineComment == <<"#", " ", "c", "\n">>
LineBlank == <<"\n">>
\* well-formed, the title holding a backslash and a digit
LineGroupRef == FileLine(<< <<"5">>, <<"d">>, <<BACKSLASH, "1">>, <<"a">>, <<"x">> >>)
\* well-formed, the title holding a backslash and a letter (a path, say)
LineBackslashLetter == FileLine(<< <<"5">>, <<"d">>, <<"c", BACKSLASH, "d">>, <<"a">>, <<"x">> >>)

BookLines == { LineSpecial, LineMalformed, LineComment, LineBlank, LineGroupRef,
               LineBackslashLetter }

BooksFiles == UNION { [1..n -> BookLines] : n \in 0..MaxLines }

\* the wrappers a host document may hold: the full structure, the list alone
\* (a document that predates the details), or none of them
RegionFull ==
    <<LIST_OPEN, "\n", UL_OPEN, "<li>", "o", "</li>", UL_CLOSE, "\n", DIV_CLOSE, "\n",
      SEP_OPEN, DIV_CLOSE, "\n",
      DET_OPEN, UL_OPEN, "<li>", "o", "</li>", UL_CLOSE, DIV_CLOSE>>
RegionLegacy ==
    <<LIST_OPEN, "\n", UL_OPEN, "<li>", "o", "</li>", UL_CLOSE, "\n", DIV_CLOSE>>
Regions == { RegionFull, RegionLegacy, <<>> }

\* what a host document may hold between the wrappers and </main>: nothing,
\* a paragraph, or another block that ends in a list
Betweens ==
    { <<>>,
      <<"\n", "<p>", "k", "</p>">>,
      <<"\n", "<div class=\"notes\">", UL_OPEN, "<li>", "k", "</li>", UL_CLOSE, DIV_CLOSE>> }

HostDocs ==
    { <<"<main>", "\n">> \o r \o b \o <<"\n", MAIN_CLOSE, "\n", "<footer>">> :
        r \in Regions, b \in Betweens }

(***************************************************************************)
(* update_book_registry (lines 98-191) and main (lines 194-201), step by  *)
(* step.  An open() that raises is a choice of the environment.            *)
(***************************************************************************)
Say(m) == [msg |-> m]

\* lines 103-112: the books file is missing or cannot be read
ReadBooksFails ==
    /\ pc = "start"
    /\ \/ books_txt = Missing /\ printed' = Append(printed, Say("Error: Books file not found"))
       \/ books_txt # Missing /\ printed' = Append(printed, Say("Error reading books file"))
    /\ ret' = "False"
    /\ pc' = "main"
    /\ UNCHANGED <<fileVars, lines, line_num, books, html_content, new_html, exit_code,
                   history, parseVars, renderVars, converterVars>>

\* lines 107-109, 115: lines = f.readlines(); books = []
ReadBooks ==
    /\ pc = "start"
    /\ books_txt # Missing
    /\ lines' = books_txt.content
    /\ line_num' = 1
    /\ books' = <<>>
    /\ pc' = "parse"
    /\ UNCHANGED <<fileVars, printed, html_content, new_html, ret, exit_code, history,
                   parseVars, renderVars, converterVars>>

\* lines 116-120: one pass of the loop
ParseLine ==
    /\ pc = "parse"
    /\ line_num <= Len(lines)
    /\ LET r == LoopBody(line_num, lines[line_num])
       IN  /\ books' = books \o r.appended
           /\ printed' = printed \o r.printed
    /\ line_num' = line_num + 1
    /\ UNCHANGED <<fileVars, pc, lines, html_content, new_html, ret, exit_code, history,
                   parseVars, renderVars, converterVars>>

\* lines 122-124: the loop is over and found no book
NoBooks ==
    /\ pc = "parse"
    /\ line_num > Len(lines)
    /\ books = <<>>
    /\ printed' = Append(printed, Say("Warning: No books found in books.txt"))
    /\ ret' = "False"
    /\ pc' = "main"
    /\ UNCHANGED <<fileVars, lines, line_num, books, html_content, new_html, exit_code,
                   history, parseVars, renderVars, converterVars>>

\* lines 126-138: the host document is missing or cannot be read
ReadHtmlFails ==
    /\ pc = "parse"
    /\ line_num > Len(lines)
    /\ books # <<>>
    /\ \/ /\ registry_html = Missing
          /\ printed' = printed \o <<Say("Found {len(books)} book(s)"),
                                     Say("Error: book-registry.html not found")>>
       \/ /\ registry_html # Missing
          /\ printed' = printed \o <<Say("Found {len(books)} book(s)"),
                                     Say("Error reading book-registry.html")>>
    /\ ret' = "False"
    /\ pc' = "main"
    /\ UNCHANGED <<fileVars, lines, line_num, books, html_content, new_html, exit_code,
                   history, parseVars, renderVars, converterVars>>

\* lines 126-135: html_content = f.read()
ReadHtml ==
    /\ pc = "parse"
    /\ line_num > Len(lines)
    /\ books # <<>>
    /\ registry_html # Missing
    /\ printed' = Append(printed, Say("Found {len(books)} book(s)"))
    /\ html_content' = registry_html.content
    /\ pc' = "splice"
    /\ UNCHANGED <<fileVars, lines, line_num, books, new_html, ret, exit_code, history,
                   parseVars, renderVars, converterVars>>

\* lines 140-181: render, substitute, fall back.  An re.error is caught
\* nowhere: the process ends with a traceback and exit status 1.
DoSplice ==
    /\ pc = "splice"
    /\ LET out == Splice(html_content, books)
       IN  IF out.raised
           THEN /\ pc' = "exit"
                /\ exit_code' = 1
                /\ UNCHANGED new_html
           ELSE /\ pc' = "write"
                /\ new_html' = out.text
                /\ UNCHANGED exit_code
    /\ UNCHANGED <<fileVars, lines, line_num, books, printed, html_content, ret, history,
                   parseVars, renderVars, converterVars>>

\* lines 184-188: the document is written, return True
WriteHtml ==
    /\ pc = "write"
    /\ registry_html' = File(new_html)
    /\ printed' = Append(printed, Say("Updated book-registry.html with {len(books)} book(s)"))
    /\ ret' = "True"
    /\ pc' = "main"
    /\ UNCHANGED <<books_txt, lines, line_num, books, html_content, new_html, exit_code,
                   history, parseVars, renderVars, converterVars>>

\* lines 189-191: open() for writing raises, return False
WriteHtmlFails ==
    /\ pc = "write"
    /\ printed' = Append(printed, Say("Error writing book-registry.html"))
    /\ ret' = "False"
    /\ pc' = "main"
    /\ UNCHANGED <<fileVars, lines, line_num, books, html_content, new_html, exit_code,
                   history, parseVars, renderVars, converterVars>>

\* lines 194-205: sys.exit(main())
Main ==
    /\ pc = "main"
    /\ exit_code' = IF ret = "True" THEN 0 ELSE 1
    /\ pc' = "exit"
    /\ UNCHANGED <<fileVars, lines, line_num, books, printed, html_content, new_html, ret,
                   history, parseVars, renderVars, converterVars>>

\* the script is run again on the files as they now are
RunAgain ==
    /\ pc = "exit"
    /\ Len(history) + 1 < MaxRuns
    /\ history' = Append(history, exit_code)
    /\ pc' = "start"
    /\ lines' = <<>>
    /\ line_num' = 1
    /\ books' = <<>>
    /\ printed' = <<>>
    /\ html_content' = <<>>
    /\ new_html' = <<>>
    /\ ret' = NotReturned
    /\ exit_code' = NoExit
    /\ UNCHANGED <<fileVars, parseVars, renderVars, converterVars>>

UpdaterNext ==
    \/ ReadBooksFails \/ ReadBooks \/ ParseLine \/ NoBooks \/ ReadHtmlFails \/ ReadHtml
    \/ DoSplice \/ WriteHtml \/ WriteHtmlFails \/ Main \/ RunAgain

(***************************************************************************)
(* md_to_html.py: format_date (lines 304-321).  The value of the `date`   *)
(* key of the front matter is a datetime, a date (what YAML makes of a    *)
(* bare 2024-03-05), an int (a bare 2024) or a string.                     *)
(***************************************************************************)
DateTimeVal(y, m, d) == [kind |-> "datetime", y |-> y, m |-> m, d |-> d, s |-> <<>>]
DateVal(y, m, d)     == [kind |-> "date", y |-> y, m |-> m, d |-> d, s |-> <<>>]
IntVal(n)            == [kind |-> "int", y |-> n, m |-> 0, d |-> 0, s |-> <<>>]
StrVal(s)            == [kind |-> "str", y |-> 0, m |-> 0, d |-> 0, s |-> s]

DecDigits == <<"0", "1", "2", "3", "4", "5", "6", "7", "8", "9">>
IsDigit(c) == \E i \in 1..10 : DecDigits[i] = c
NumVal(c) == (CHOOSE i \in 1..10 : DecDigits[i] = c) - 1
DigitChar(n) == DecDigits[n + 1]

\* int(s) for a text of digits
RECURSIVE IntOf(_)
IntOf(s) == IF s = <<>> THEN 0 ELSE 10 * IntOf(SubSeq(s, 1, Len(s) - 1)) + NumVal(s[Len(s)])

\* str(n) for n >= 0
RECURSIVE Decimal(_)
Decimal(n) == IF n < 10 THEN <<DigitChar(n)>> ELSE Decimal(n \div 10) \o <<DigitChar(n % 10)>>

\* two digits, zero-padded (%d, and the fields of date.isoformat)
Pad2(n) == <<DigitChar(n \div 10), DigitChar(n % 10)>>
\* four digits, zero-padded (the year of date.isoformat)
Pad4(n) == <<DigitChar(n \div 1000), DigitChar((n \div 100) % 10)>> \o Pad2(n % 100)

MonthNames == <<"January", "February", "March", "April", "May", "June", "July",
                "August", "September", "October", "November", "December">>

\* strftime("%B %d, %Y")
Strftime(y, m, d) == <<MonthNames[m], " ">> \o Pad2(d) \o <<",", " ">> \o Decimal(y)

\* str(date): YYYY-MM-DD
IsoFormat(y, m, d) == Pad4(y) \o <<"-">> \o Pad2(m) \o <<"-">> \o Pad2(d)

IsLeap(y) == (y % 4 = 0 /\ y % 100 # 0) \/ y % 400 = 0
DaysIn(y, m) ==
    IF m = 2 THEN (IF IsLeap(y) THEN 29 ELSE 28)
    ELSE IF m \in {4, 6, 9, 11} THEN 30 ELSE 31

\* the fields strptime's pattern for "%Y-%m-%d" takes:
\*   %Y \d\d\d\d   %m 1[0-2]|0[1-9]|[1-9]   %d 3[01]|[12]\d|0[1-9]|[1-9]| [1-9]
AllDigits(s) == \A i \in 1..Len(s) : IsDigit(s[i])
IsYearField(s) == Len(s) = 4 /\ AllDigits(s)
IsMonthField(s) == Len(s) \in {1, 2} /\ AllDigits(s) /\ IntOf(s) \in 1..12
IsDayField(s) ==
    \/ Len(s) \in {1, 2} /\ AllDigits(s) /\ IntOf(s) \in 1..31
    \/ Len(s) = 2 /\ s[1] = " " /\ IsDigit(s[2]) /\ IntOf(<<s[2]>>) \in 1..9
DayOf(s) == IF s[1] = " " THEN IntOf(<<s[2]>>) ELSE IntOf(s)

\* datetime.strptime(s, "%Y-%m-%d"): the date, or ok = FALSE for ValueError
\* (the text does not match, text is left over, or there is no such day)
Strptime(s) ==
    LET parts == Split(s, <<"-">>)
    IN  IF /\ Len(parts) = 3
           /\ IsYearField(parts[1]) /\ IsMonthField(parts[2]) /\ IsDayField(parts[3])
           /\ IntOf(parts[1]) >= 1
           /\ DayOf(parts[3]) <= DaysIn(IntOf(parts[1]), IntOf(parts[2]))
        THEN [ok |-> TRUE, y |-> IntOf(parts[1]), m |-> IntOf(parts[2]), d |-> DayOf(parts[3])]
        ELSE [ok |-> FALSE, y |-> 0, m |-> 0, d |-> 0]

\* str(date_input) of line 321
StrOf(v) ==
    CASE v.kind = "date" -> IsoFormat(v.y, v.m, v.d)
      [] v.kind = "int"  -> Decimal(v.y)
      [] OTHER           -> v.s

\* line 309: isinstance(date_input, datetime); a date is no datetime
IsDatetime(v) == v.kind = "datetime"

format_date(v) ==
    IF IsDatetime(v) THEN Strftime(v.y, v.m, v.d)
    ELSE IF v.kind = "str"
         THEN LET p == Strptime(v.s)
              IN  IF p.ok THEN Strftime(p.y, p.m, p.d) ELSE v.s
    ELSE StrOf(v)

\* `if date` of line 421
Truthy(v) ==
    CASE v.kind = "str" -> v.s # <<>>
      [] v.kind = "int" -> v.y # 0
      [] OTHER          -> TRUE

(***************************************************************************)
(* The inputs of the article converter.                                    *)
(***************************************************************************)
\* sys.argv[1:]
Argvs == { <<>>, <<"post.md">>, <<"/site/post.md">>, <<"post.md", "out">> }
IsAbsolute(path) == path = "/site/post.md"

YearTexts  == { <<"2", "0", "2", "4">> }
MonthTexts == { <<"0", "3">>, <<"3">>, <<"0", "2">>, <<"1", "3">> }
DayTexts   == { <<"0", "5">>, <<"5">>, <<"3", "0">>, <<" ", "5">> }

MetaDates ==
    { StrVal(Join(<<y, m, d>>, <<"-">>)) : y \in YearTexts, m \in MonthTexts, d \in DayTexts }
      \cup { StrVal(<<>>),
             StrVal(<<"c", "i", "r", "c", "a", " ", "1", "9", "9", "0">>),
             StrVal(<<"March", " ", "0", "5", ",", " ", "2", "0", "2", "4">>),
             IntVal(2024) }
      \cup { DateVal(2024, m, 5) : m \in {3, 12} }
      \cup { DateTimeVal(2024, m, 5) : m \in {3, 12} }

(***************************************************************************)
(* md_to_html.py: the imports (lines 14-20), main (lines 453-470) and     *)
(* convert_markdown_to_html (lines 385-450), step by step.                 *)
(***************************************************************************)
\* lines 17-20: markdown or frontmatter is not installed
ImportFails ==
    /\ c_pc = "import"
    /\ c_exit' = 1
    /\ c_pc' = "exit"
    /\ UNCHANGED <<c_argv, c_exists, c_drafts_exists, c_date, c_formatted, c_written,
                   parseVars, renderVars, updaterVars>>

Imported ==
    /\ c_pc = "import"
    /\ c_pc' = "main"
    /\ UNCHANGED <<c_argv, c_exists, c_drafts_exists, c_date, c_formatted, c_written,
                   c_exit, parseVars, renderVars, updaterVars>>

\* lines 455-461: no argument, sys.exit(1)
Usage ==
    /\ c_pc = "main"
    /\ Len(c_argv) < 1
    /\ c_exit' = 1
    /\ c_pc' = "exit"
    /\ UNCHANGED <<c_argv, c_exists, c_drafts_exists, c_date, c_formatted, c_written,
                   parseVars, renderVars, updaterVars>>

\* lines 396-404: the path as given, or the same path under drafts/
Found ==
    \/ c_exists
    \/ ~IsAbsolute(c_argv[1]) /\ c_drafts_exists

\* lines 404-406 and 466: the file is not found; convert_markdown_to_html
\* returns None, main drops the value and returns
NotFound ==
    /\ c_pc = "main"
    /\ Len(c_argv) >= 1
    /\ ~Found
    /\ c_exit' = 0
    /\ c_pc' = "exit"
    /\ UNCHANGED <<c_argv, c_exists, c_drafts_exists, c_date, c_formatted, c_written,
                   parseVars, renderVars, updaterVars>>

\* lines 408-414 and 466: open or frontmatter.load raises; None is returned
\* and dropped
LoadFails ==
    /\ c_pc = "main"
    /\ Len(c_argv) >= 1
    /\ Found
    /\ c_exit' = 0
    /\ c_pc' = "exit"
    /\ UNCHANGED <<c_argv, c_exists, c_drafts_exists, c_date, c_formatted, c_written,
                   parseVars, renderVars, updaterVars>>

\* lines 408-421: the post is loaded and its date formatted
Load ==
    /\ c_pc = "main"
    /\ Len(c_argv) >= 1
    /\ Found
    /\ c_formatted' = IF Truthy(c_date) THEN format_date(c_date) ELSE <<>>
    /\ c_pc' = "mkdir"
    /\ UNCHANGED <<c_argv, c_exists, c_drafts_exists, c_date, c_written, c_exit,
                   parseVars, renderVars, updaterVars>>

\* lines 428-433: mkdir raises; nothing catches it
MkdirFails ==
    /\ c_pc = "mkdir"
    /\ c_exit' = 1
    /\ c_pc' = "exit"
    /\ UNCHANGED <<c_argv, c_exists, c_drafts_exists, c_date, c_formatted, c_written,
                   parseVars, renderVars, updaterVars>>

\* lines 428-447 and 466: the page is written
WriteArticle ==
    /\ c_pc = "mkdir"
    /\ c_written' = TRUE
    /\ c_exit' = 0
    /\ c_pc' = "exit"
    /\ UNCHANGED <<c_argv, c_exists, c_drafts_exists, c_date, c_formatted,
                   parseVars, renderVars, updaterVars>>

\* lines 448-450 and 466: open for writing raises; None is returned and
\* dropped
WriteArticleFails ==
    /\ c_pc = "mkdir"
    /\ c_exit' = 0
    /\ c_pc' = "exit"
    /\ UNCHANGED <<c_argv, c_exists, c_drafts_exists, c_date, c_formatted, c_written,
                   parseVars, renderVars, updaterVars>>

ConverterNext ==
    \/ ImportFails \/ Imported \/ Usage \/ NotFound \/ LoadFails \/ Load
    \/ MkdirFails \/ WriteArticle \/ WriteArticleFails

(***************************************************************************)
(* The specifications.  Each runs one part of the scripts; the variables  *)
(* of the other parts rest.                                                *)
(***************************************************************************)
\* the registry updater, run on every pair of files, MaxRuns times in a row
Init ==
    /\ books_txt \in { File(c) : c \in BooksFiles } \cup {Missing}
    /\ registry_html \in { File(c) : c \in HostDocs } \cup {Missing}
    /\ pc = "start"
    /\ lines = <<>>
    /\ line_num = 1
    /\ books = <<>>
    /\ printed = <<>>
    /\ html_content = <<>>
    /\ new_html = <<>>
    /\ ret = NotReturned
    /\ exit_code = NoExit
    /\ history = <<>>
    /\ p_pc = "idle" /\ p_line = <<>> /\ p_ret = None /\ p_printed = <<>>
    /\ g_pc = "idle" /\ g_books = <<>> /\ g_summary = <<>> /\ g_detail = <<>>
    /\ c_argv = <<>> /\ c_exists = FALSE /\ c_drafts_exists = FALSE
    /\ c_date = StrVal(<<>>) /\ c_pc = "idle" /\ c_formatted = <<>>
    /\ c_written = FALSE /\ c_exit = NoExit

Next == UpdaterNext

Spec == Init /\ [][Next]_vars

\* parse_book_line and the loop body, called on every line of Lines
ParseInit ==
    /\ p_pc = "call"
    /\ p_line \in Lines
    /\ p_ret = None
    /\ p_printed = <<>>
    /\ g_pc = "idle" /\ g_books = <<>> /\ g_summary = <<>> /\ g_detail = <<>>
    /\ books_txt = Missing /\ registry_html = Missing
    /\ pc = "idle" /\ lines = <<>> /\ line_num = 1 /\ books = <<>> /\ printed = <<>>
    /\ html_content = <<>> /\ new_html = <<>> /\ ret = NotReturned
    /\ exit_code = NoExit /\ history = <<>>
    /\ c_argv = <<>> /\ c_exists = FALSE /\ c_drafts_exists = FALSE
    /\ c_date = StrVal(<<>>) /\ c_pc = "idle" /\ c_formatted = <<>>
    /\ c_written = FALSE /\ c_exit = NoExit

SpecParse == ParseInit /\ [][CallParse \/ CallLoopBody]_vars

\* generate_book_html, called on every list of up to MaxBooks records
RenderInit ==
    /\ g_pc = "call"
    /\ g_books \in UNION { [1..n -> Records] : n \in 0..MaxBooks }
    /\ g_summary = <<>>
    /\ g_detail = <<>>
    /\ p_pc = "idle" /\ p_line = <<>> /\ p_ret = None /\ p_printed = <<>>
    /\ books_txt = Missing /\ registry_html = Missing
    /\ pc = "idle" /\ lines = <<>> /\ line_num = 1 /\ books = <<>> /\ printed = <<>>
    /\ html_content = <<>> /\ new_html = <<>> /\ ret = NotReturned
    /\ exit_code = NoExit /\ history = <<>>
    /\ c_argv = <<>> /\ c_exists = FALSE /\ c_drafts_exists = FALSE
    /\ c_date = StrVal(<<>>) /\ c_pc = "idle" /\ c_formatted = <<>>
    /\ c_written = FALSE /\ c_exit = NoExit

SpecRender == RenderInit /\ [][CallGenerate]_vars

\* the article converter, run on every command line, file system and date
ConverterInit ==
    /\ c_argv \in Argvs
    /\ c_exists \in BOOLEAN
    /\ c_drafts_exists \in BOOLEAN
    /\ c_date \in MetaDates
    /\ c_pc = "import"
    /\ c_formatted = <<>>
    /\ c_written = FALSE
    /\ c_exit = NoExit
    /\ p_pc = "idle" /\ p_line = <<>> /\ p_ret = None /\ p_printed = <<>>
    /\ g_pc = "idle" /\ g_books = <<>> /\ g_summary = <<>> /\ g_detail = <<>>
    /\ books_txt = Missing /\ registry_html = Missing
    /\ pc = "idle" /\ lines = <<>> /\ line_num = 1 /\ books = <<>> /\ printed = <<>>
    /\ html_content = <<>> /\ new_html = <<>> /\ ret = NotReturned
    /\ exit_code = NoExit /\ history = <<>>

SpecConverter == ConverterInit /\ [][ConverterNext]_vars

(***************************************************************************)
(*                         Properties of the scripts                       *)
(***************************************************************************)

\* ---- helpers of the properties

\* the one entity a character is escaped to; other characters stand as they are
EntityOf(c) ==
    CASE c = "&"  -> <<"&", "a", "m", "p", ";">>
      [] c = "<"  -> <<"&", "l", "t", ";">>
      [] c = ">"  -> <<"&", "g", "t", ";">>
      [] c = "\"" -> <<"&", "q", "u", "o", "t", ";">>
      [] c = "'"  -> <<"&", "#", "x", "2", "7", ";">>
      [] OTHER    -> <<c>>

\* a text with each of its characters escaped exactly once
RECURSIVE EscapedOnce(_)
EscapedOnce(s) == IF s = <<>> THEN <<>> ELSE EntityOf(Head(s)) \o EscapedOnce(Tail(s))

\* no character html.escape rewrites stands raw in out: none of < > " ' and
\* every & opens one of the five entities
NoRawSpecial(out) ==
    \A i \in 1..Len(out) :
        /\ out[i] \notin {"<", ">", "\"", "'"}
        /\ out[i] = "&" =>
              \E e \in {AMP, LT, GT, QUOT, APOS} : HasAt(out, i, e)

\* the summary item and the detail item of a record, each field escaped once
SummaryItemOnce(b) ==
    Spaces(16) \o <<"<li>">> \o EscapedOnce(b.rating) \o <<" ", EMDASH, " ">>
      \o EscapedOnce(b.date_read) \o <<" ", EMDASH, " ", "<strong>">>
      \o EscapedOnce(b.title) \o <<"</strong>", " ", "b", "y", " ">>
      \o EscapedOnce(b.author) \o <<"</li>">>

DetailItemOnce(b) ==
    Spaces(16) \o <<"<li>", "\n">> \o Spaces(20)
      \o <<"<span class=\"book-title-author\">", "<strong>">> \o EscapedOnce(b.title)
      \o <<"</strong>", " ", "b", "y", " ">> \o EscapedOnce(b.author)
      \o <<"</span>", "\n">> \o Spaces(20) \o <<"<div class=\"book-description\">">>
      \o EscapedOnce(b.description) \o <<"</div>", "\n">> \o Spaces(16) \o <<"</li>">>

\* C4: in both fragments generate_book_html returns, every inserted field
\* (rating, date_read, title, author; title, author, description) stands
\* HTML-escaped exactly once: the fragments are the items with each field
\* escaped once, and no raw < > & " ' of a field reaches them.
C4_FieldsEscapedOnce ==
    g_pc = "done" =>
        /\ g_summary = Join([i \in 1..Len(g_books) |-> SummaryItemOnce(g_books[i])], <<"\n">>)
        /\ g_detail  = Join([i \in 1..Len(g_books) |-> DetailItemOnce(g_books[i])], <<"\n">>)
        /\ NoRawSpecial(g_summary)
        /\ NoRawSpecial(g_detail)

\* C4 happens: two records were rendered, one of them with special characters
\* in every field
C4_Witness ==
    /\ g_pc = "done"
    /\ Len(g_books) = 2
    /\ \E i \in 1..2 : \A f \in {"rating", "date_read", "title", "author", "description"} :
           \E k \in 1..Len(g_books[i][f]) : g_books[i][f][k] \in {"<", "&", ">", "\"", "'"}
    /\ g_summary # <<>>

\* C5 as amended: for every line whose trimmed form splits on ' - ' into n >= 5
\* segments, parse_book_line returns the record whose rating, date_read, title
\* and author are segments 0..3, each trimmed of surrounding whitespace, and
\* whose description is the trimmed segments 4..n-1 rejoined with ' - '.
C5_JoinRemainderTrimmed ==
    LET segs == Split(Strip(p_line), DELIM)
    IN  (p_pc = "parsed" /\ Len(segs) >= 5) =>
            /\ p_printed = <<>>
            /\ p_ret = [rating      |-> Strip(segs[1]),
                        date_read   |-> Strip(segs[2]),
                        title       |-> Strip(segs[3]),
                        author      |-> Strip(segs[4]),
                        description |->
                            Join([i \in 1..(Len(segs) - 4) |-> Strip(segs[i + 4])], DELIM)]

\* C5 happens: a line of 6 segments was parsed and the description holds the
\* delimiter
C5_Witness ==
    /\ p_pc = "parsed"
    /\ Len(Split(Strip(p_line), DELIM)) = 6
    /\ p_ret # None
    /\ Find(p_ret.description, DELIM, 1) # 0

\* C5 as stated: for every line that splits on ' - ' into n >= 5 segments,
\* the record holds segments 0..3 as they are and segments 4..n-1 rejoined.
C5_AsStated ==
    LET segs == Split(p_line, DELIM)
    IN  (p_pc = "parsed" /\ Len(segs) >= 5) =>
            p_ret = [rating      |-> segs[1],
                     date_read   |-> segs[2],
                     title       |-> segs[3],
                     author      |-> segs[4],
                     description |-> Join(SubSeq(segs, 5, Len(segs)), DELIM)]

\* C8 as amended: parse_book_line returns None without a diagnostic for a line
\* that is empty after trimming; a '#'-prefixed line it treats as any other
\* line (a record when it has 5 or more segments, None with the diagnostic
\* otherwise); it is the loop of update_book_registry that skips blank and
\* '#'-prefixed lines without a record and without a diagnostic.
C8_BlankSilentCommentByCaller ==
    LET line == Strip(p_line)
        n    == Len(Split(line, DELIM))
    IN  /\ (p_pc = "parsed" /\ line = <<>>) => (p_ret = None /\ p_printed = <<>>)
        /\ (p_pc = "parsed" /\ StartsWith(line, <<"#">>) /\ n >= 5) =>
               (p_ret # None /\ p_printed = <<>>)
        /\ (p_pc = "parsed" /\ StartsWith(line, <<"#">>) /\ n < 5) =>
               (p_ret = None /\ p_printed # <<>>)
        /\ (p_pc = "looped" /\ (line = <<>> \/ StartsWith(line, <<"#">>))) =>
               (p_ret = <<>> /\ p_printed = <<>>)

\* C8 happens: parse_book_line was called on a '#'-prefixed line of 5 segments
C8_Witness ==
    /\ p_pc = "parsed"
    /\ StartsWith(Strip(p_line), <<"#">>)
    /\ Len(Split(Strip(p_line), DELIM)) = 5

\* C8 as stated: parse_book_line returns None and prints nothing for every
\* line that is empty after trimming or whose trimmed form starts with '#'.
C8_AsStated ==
    (p_pc = "parsed" /\ (Strip(p_line) = <<>> \/ StartsWith(Strip(p_line), <<"#">>))) =>
        (p_ret = None /\ p_printed = <<>>)

\* ---- the registry updater

Count(s, x) == Cardinality({ i \in 1..Len(s) : s[i] = x })

\* one of the two patterns matches the host document somewhere
PatternMatches(doc) ==
    \E i \in 1..Len(doc) : PatternAt(doc, i).end # 0 \/ PatternSimpleAt(doc, i).end # 0

\* the process printed one of its own I/O errors
IOErrorPrinted ==
    \E j \in 1..Len(printed) :
        printed[j].msg \in { "Error: Books file not found", "Error reading books file",
                             "Error: book-registry.html not found",
                             "Error reading book-registry.html",
                             "Error writing book-registry.html" }

\* C1 as stated: the updater ends with exit code 0 if and only if at least
\* one record was parsed and one of the two patterns matched the host
\* document; in every other case, in particular when neither pattern matches
\* book-registry.html, it ends with exit code 1.
C1_AsStated ==
    (pc = "exit" /\ ret # NotReturned) =>
        /\ exit_code = (IF ret = "True" THEN 0 ELSE 1)
        /\ ret = "True" <=>
              (books # <<>> /\ registry_html.exists /\ ~IOErrorPrinted
                 /\ PatternMatches(html_content))

\* where the marker wrappers of a host document start and where they end:
\* the books-list wrapper up to its closing </ul></div>, then the separator
\* and the details wrapper if they follow
WrappersStart(doc) == Least({ i \in 1..Len(doc) : doc[i] = LIST_OPEN })
WrappersEnd(doc) ==
    LET e1 == Least(ListEnds(doc, WrappersStart(doc) + 1))
        e2 == IF SepEnds(doc, e1) # {} THEN Least(SepEnds(doc, e1)) ELSE e1
    IN  IF DetEnds(doc, e2) # {} THEN Least(DetEnds(doc, e2)) ELSE e2
HasWrappers(doc) ==
    /\ \E i \in 1..Len(doc) : doc[i] = LIST_OPEN
    /\ ListEnds(doc, WrappersStart(doc) + 1) # {}

\* no field of the records holds a backslash
NoBackslash(bks) ==
    \A i \in 1..Len(bks) : \A f \in DOMAIN bks[i] : Count(bks[i][f], BACKSLASH) = 0

\* C2 as stated: the splice changes only the marker region: the text before
\* the opening books-list marker and all the text after the end of the marker
\* wrappers (other content up to </main>, </main> and what follows it) are
\* the same in the output document.  (Stated for records without a
\* backslash, where the replacement template is plain text.)
C2_AsStated ==
    (pc = "write" /\ NoBackslash(books)) =>
        IF HasWrappers(html_content)
        THEN LET rest == SubSeq(html_content, WrappersEnd(html_content), Len(html_content))
                 head == SubSeq(html_content, 1, WrappersStart(html_content) - 1)
             IN  /\ Len(new_html) >= Len(head) + Len(rest)
                 /\ SubSeq(new_html, 1, Len(head)) = head
                 /\ SubSeq(new_html, Len(new_html) - Len(rest) + 1, Len(new_html)) = rest
        ELSE new_html = html_content

\* C3 as stated: with the records fixed, a second run of the splice leaves
\* the document as the first run wrote it.
C3_AsStated ==
    (pc = "exit" /\ history = <<0>> /\ exit_code = 0) =>
        registry_html.content = html_content

\* a line the loop hands to the parser and the parser rejects
IsMalformed(raw) ==
    /\ Strip(raw) # <<>>
    /\ ~StartsWith(Strip(raw), <<"#">>)
    /\ Len(Split(Strip(raw), DELIM)) < 5

\* C6 as stated: for every non-blank, non-comment line of fewer than 5
\* segments a diagnostic is printed that names the line and its 1-based line
\* number; the line yields no record and the lines after it are parsed.
C6_AsStated ==
    pc \in {"parse", "splice", "write", "main", "exit"} =>
        \A k \in 1..(line_num - 1) :
            IsMalformed(lines[k]) =>
                \E j \in 1..Len(printed) :
                    /\ "line" \in DOMAIN printed[j]
                    /\ printed[j].line = Strip(lines[k])
                    /\ "line_num" \in DOMAIN printed[j]
                    /\ printed[j].line_num = k

\* the records of the lines of a file that are not blank, not comments and
\* have 5 segments or more, in file order
RECURSIVE RecordsOf(_)
RecordsOf(ls) ==
    IF ls = <<>> THEN <<>>
    ELSE (IF Strip(Head(ls)) # <<>> /\ ~StartsWith(Strip(Head(ls)), <<"#">>)
             /\ Len(Split(Strip(Head(ls)), DELIM)) >= 5
          THEN <<parse_book_line(Head(ls)).ret>> ELSE <<>>) \o RecordsOf(Tail(ls))

\* a malformed line between two well-formed lines
IsSandwich(ls) ==
    /\ Len(ls) = 3
    /\ IsMalformed(ls[2])
    /\ Len(RecordsOf(<<ls[1]>>)) = 1
    /\ Len(RecordsOf(<<ls[3]>>)) = 1

\* C7 as stated: with both files there and no I/O error, the records that
\* are rendered and spliced are those of the well-formed lines, in file
\* order; only malformed lines print a diagnostic, one each; and a file with
\* a malformed line between two well-formed lines gives 2 spliced records
\* and success.
C7_AsStated ==
    (pc = "exit" /\ books_txt.exists /\ registry_html.exists /\ ~IOErrorPrinted) =>
        /\ books = RecordsOf(books_txt.content)
        /\ Cardinality({ j \in 1..Len(printed) : "line" \in DOMAIN printed[j] })
             = Cardinality({ k \in 1..Len(lines) : IsMalformed(lines[k]) })
        /\ IsSandwich(books_txt.content) =>
              /\ exit_code = 0
              /\ Len(books) = 2
              /\ PatternMatches(html_content) =>
                    Count(registry_html.content, "<span class=\"book-title-author\">") = 2

\* ---- the article converter

\* C9 as stated: the converter exits with code 1 when called with no
\* argument, when the input file is not found (after the drafts fallback) and
\* when it cannot be read or written; it exits with code 0 only when the
\* output file was written.
C9_AsStated ==
    c_pc = "exit" => c_exit = (IF c_written THEN 0 ELSE 1)

\* a text of the form YYYY-MM-DD: four digits, two digits, two digits
IsYMDForm(s) ==
    /\ Len(s) = 10
    /\ s[5] = "-" /\ s[8] = "-"
    /\ \A i \in {1, 2, 3, 4, 6, 7, 9, 10} : IsDigit(s[i])

\* a text of the form YYYY-MM-DD that names a day of the calendar
IsYMDDay(s) ==
    /\ IsYMDForm(s)
    /\ IntOf(SubSeq(s, 1, 4)) >= 1
    /\ IntOf(SubSeq(s, 6, 7)) \in 1..12
    /\ IntOf(SubSeq(s, 9, 10)) \in 1..DaysIn(IntOf(SubSeq(s, 1, 4)), IntOf(SubSeq(s, 6, 7)))

\* C10 as stated: format_date returns the long form 'Month DD, YYYY' for
\* every native date value (a date as well as a datetime) and for every string
\* of the form YYYY-MM-DD, and returns a string of any other form unchanged.
\* (The strings are those whose form is beyond doubt: a day of the calendar
\* written YYYY-MM-DD, and a text that is not three fields around two dashes.)
C10_AsStated ==
    (c_pc = "mkdir" /\ Truthy(c_date)) =>
        /\ c_date.kind \in {"date", "datetime"} =>
              c_formatted = Strftime(c_date.y, c_date.m, c_date.d)
        /\ (c_date.kind = "str" /\ IsYMDDay(c_date.s)) =>
              c_formatted = <<MonthNames[IntOf(SubSeq(c_date.s, 6, 7))], " ">>
                              \o SubSeq(c_date.s, 9, 10) \o <<",", " ">>
                              \o SubSeq(c_date.s, 1, 4)
        /\ (c_date.kind = "str" /\ Len(Split(c_date.s, <<"-">>)) # 3) =>
              c_formatted = c_date.s

\* ---- the spliced region

\* the region the replacement writes for the records bks, as plain text
RegionOf(bks) == ReplacementOf(generate_book_html(bks))

\* the document holds the region of the records bks, character for
\* character, right before the closing </main> (with its whitespace)
HoldsRegion(doc, bks) ==
    \E i \in 1..Len(doc) :
        /\ HasAt(doc, i, RegionOf(bks))
        /\ TailEnd(doc, i + Len(RegionOf(bks))) # 0

\* C11 as stated: whenever one of the two patterns matches the host
\* document (the full structure or the legacy one), the splice does not
\* abort, and the region of the new document is the full structure
\* (books-list, books-separator, books-details) whose two list interiors are
\* the rendered summary and detail fragments character for character, for
\* every record content, backslashes and group-reference lookalikes
\* included.
C11_AsStated ==
    (/\ pc \in {"write", "exit"}
     /\ pc = "exit" => ret = NotReturned
     /\ books # <<>>
     /\ PatternMatches(html_content)) =>
        /\ pc = "write"
        /\ HoldsRegion(new_html, books)

=============================================================================
